---- MODULE Spec2Model ----
(***************************************************************************)
(* Model of jest-llm-eval: the criteria-pass matcher (toPassAllCriteria),  *)
(* the evaluation engine (evaluateAiResponse), the process-wide record     *)
(* store (global.evaluationRecords) and the confidence matcher             *)
(* (toPassWithConfidence).                                                 *)
(*                                                                         *)
(* JavaScript values that may be null/undefined are modelled as optional   *)
(* values: None for undefined, Some(v) for a present value v.  Strings     *)
(* built by template literals and join() are modelled as sequences of      *)
(* string fragments, so that formatting is computed, not assumed.          *)
(***************************************************************************)
EXTENDS Integers, Sequences, FiniteSets, TLC

VARIABLES
    calls,              \* toPassAllCriteria invocations: locals and position of each
    evaluationRecords,  \* global.evaluationRecords, the process-wide record store
    conf,               \* the toPassWithConfidence invocation: locals and position
    plan,               \* environment: what the test function does in each iteration
    order,              \* history: the order in which the iterations settled
    tool,               \* the toHaveToolCall / toHaveToolCallResult invocation
    match,              \* the deepPartialMatch invocation
    run,                \* the runMultiStepTest invocation: locals and position
    builder,            \* the CriteriaBuilder: its list and what add/build returned
    reporter,           \* the reporters constructed and what each report read
    now                 \* environment: the millisecond clock, Date.now()

vars ==
    <<calls, evaluationRecords, conf, plan, order, tool, match, run, builder, reporter, now>>

(***************************************************************************)
(* Bounds of the model.                                                    *)
(***************************************************************************)
\* longest criteria list a judge answers with
MaxResults == 2
\* largest explicit `iterations` option given to toPassWithConfidence
MaxIterations == 3
\* largest number of entries in one message's content array
MaxParts == 2
\* largest number of user turns given to runMultiStepTest
MaxTurns == 3
\* largest number of add() calls on one builder
MaxAdds == 3
\* largest number of build() calls on one builder
MaxBuilds == 2
\* latest reading of the millisecond clock
MaxClock == 1
\* largest number of reports the reporters generate
MaxReports == 2

\* the test invocations that may overlap in one process
CallIds == {"t1", "t2"}

(***************************************************************************)
(* Optional values (undefined / present).                                  *)
(***************************************************************************)
None == [defined |-> FALSE]

Some(v) == [defined |-> TRUE, value |-> v]

\* JavaScript truthiness of an optional object or array: !x is true only for
\* null/undefined; an empty array is truthy.
Truthy(x) == x.defined

RECURSIVE SeqsUpTo(_, _)
SeqsUpTo(S, n) ==
    IF n = 0 THEN {<<>>}
    ELSE LET shorter == SeqsUpTo(S, n - 1)
         IN  shorter \cup {Append(s, e) : s \in {t \in shorter : Len(t) = n - 1}, e \in S}

(***************************************************************************)
(* Criteria model (evaluation-utils): predefined criteria table.           *)
(***************************************************************************)
CRITERIA ==
    [Welcome   |-> [id |-> "welcome",
                    description |-> "The response is welcoming to the user"],
     Relevance |-> [id |-> "relevance",
                    description |-> "The response is relevant to the user's initial greeting"]]

\* the criteria sets handed to the matcher: missing, empty, or built
CriteriaInputs == {None, Some(<<>>), Some(<<CRITERIA.Welcome, CRITERIA.Relevance>>)}

\* the conversations handed to the matcher: missing, empty, or two messages
ConversationInputs ==
    {None, Some(<<>>),
     Some(<<[role |-> "user", content |-> "Hello"],
            [role |-> "assistant", content |-> "Hi, how can I help you?"]>>)}

\* the judges handed to the matcher: missing, a JudgeAdapter, a bare LanguageModel
JudgeInputs == {None, Some([kind |-> "adapter"]), Some([kind |-> "model"])}

(***************************************************************************)
(* What a judge call can settle with.                                      *)
(***************************************************************************)
\* one evaluated criterion, as the output schema requires it
EvaluatedCriterionResult ==
    {[id |-> c.id, description |-> c.description, passed |-> p] :
        c \in {CRITERIA.Welcome, CRITERIA.Relevance}, p \in BOOLEAN}

TokenCounts == {7}

\* usage is optional in the adapter's answer
UsageAnswers == {None} \cup {Some([totalTokens |-> n]) : n \in TokenCounts}

\* a resolved judge call: { object: { criteria: [...] }, usage? }
JudgeAnswers ==
    {[object |-> [criteria |-> r], usage |-> u] :
        r \in SeqsUpTo(EvaluatedCriterionResult, MaxResults), u \in UsageAnswers}

\* errors a judge call can reject with
JudgeErrors == {"transport failure", "schema mismatch"}

(***************************************************************************)
(* evaluation-utils: evaluateAiResponse.                                   *)
(***************************************************************************)
\* the judge is called once per evaluation: the single awaited generateObject
judgeCallsAfterEvaluate(n) == n + 1

\* the value evaluateAiResponse resolves with, given what the judge call resolved with
evaluateAiResponse(answer) ==
    [results |-> answer.object.criteria,
     usage   |-> answer.usage]

(***************************************************************************)
(* test-utils: toPassAllCriteria.                                          *)
(***************************************************************************)
isJudgeAdapter(value) == value.defined /\ value.value.kind = "adapter"

\* a bare model is wrapped into an adapter whose evaluateObject forwards the
\* generateObject answer: object and usage unchanged
judgeToUse(judge, answer) ==
    IF isJudgeAdapter(judge) THEN answer
    ELSE [object |-> answer.object, usage |-> answer.usage]

\* mutant of conversationMissing: an empty conversation is rejected as well
conversationMissing_orEmpty(receivedConversation) ==
    ~Truthy(receivedConversation) \/ Len(receivedConversation.value) = 0

conversationMissing(receivedConversation) == ~Truthy(receivedConversation)

criteriaMissing(criteria) == ~Truthy(criteria) \/ Len(criteria.value) = 0

\* mutant of judgeMissing: the check is left out
judgeMissing_unchecked(judge) == FALSE

judgeMissing(judge) == ~Truthy(judge)

\* the early returns of the matcher, in source order; None when validation passes
validationResult(receivedConversation, criteria, judge) ==
    IF conversationMissing(receivedConversation)
    THEN Some([pass |-> FALSE,
               message |-> <<"Expected a conversation (ModelMessage[]) to be provided.">>])
    ELSE IF criteriaMissing(criteria)
    THEN Some([pass |-> FALSE,
               message |-> <<"Expected evaluation criteria (EvaluationCriterionDef[]) to be provided.">>])
    ELSE IF judgeMissing(judge)
    THEN Some([pass |-> FALSE,
               message |-> <<"Expected a judge adapter to be provided.">>])
    ELSE None

\* mutant of allPassed: some() in place of every()
allPassed_some(results) == \E i \in 1..Len(results) : results[i].passed

\* results.every(c => c.passed)
allPassed(results) == \A i \in 1..Len(results) : results[i].passed

\* mutant of failedResults: the filter keeps the entries that passed
RECURSIVE failedResults_passed(_)
failedResults_passed(results) ==
    IF results = <<>> THEN <<>>
    ELSE IF Head(results).passed
         THEN <<Head(results)>> \o failedResults_passed(Tail(results))
         ELSE failedResults_passed(Tail(results))

\* results.filter(c => !c.passed)
RECURSIVE failedResults(_)
failedResults(results) ==
    IF results = <<>> THEN <<>>
    ELSE IF ~Head(results).passed
         THEN <<Head(results)>> \o failedResults(Tail(results))
         ELSE failedResults(Tail(results))

\* `${c.id}: ${c.description}`
failedLine(c) == <<c.id, ": ", c.description>>

\* lines.join(sep)
RECURSIVE join(_, _)
join(lines, sep) ==
    IF lines = <<>> THEN <<>>
    ELSE IF Len(lines) = 1 THEN Head(lines)
    ELSE Head(lines) \o <<sep>> \o join(Tail(lines), sep)

\* .filter(c => !c.passed).map(c => `${c.id}: ${c.description}`).join('\n  ')
failed(results) ==
    join([i \in 1..Len(failedResults(results)) |-> failedLine(failedResults(results)[i])], "\n  ")

\* the matcher result after the evaluation
matcherResult(results) ==
    IF allPassed(results)
    THEN [pass |-> TRUE, message |-> <<"expected all criteria not to pass">>]
    ELSE [pass |-> FALSE,
          message |-> <<"expected all criteria to pass, but these failed:", "\n  ">>
                      \o failed(results)]

\* the jest.MatcherContext of the running test: every invocation modelled
\* here is made inside this one test.  A string is a sequence of fragments:
\* runs of the characters [a-zA-Z0-9-_], and single other characters
MatcherContext ==
    [testPath        |-> Some(<<"/", "src", "/", "chat", ".", "test", ".", "ts">>),
     currentTestName |-> Some(<<"greets", " ", "politely">>)]

\* the characters used here that are outside [a-zA-Z0-9-_]
UnsafeChars == {"/", ".", " "}

\* this.testPath || 'unknown_path'
testPath(this) == IF this.testPath.defined THEN this.testPath.value ELSE <<"unknown_path">>

\* this.currentTestName || 'unknown_test_name'
testName(this) ==
    IF this.currentTestName.defined THEN this.currentTestName.value
    ELSE <<"unknown_test_name">>

\* text.replace(/[^a-zA-Z0-9-_]/g, '_')
sanitize(text) == [i \in DOMAIN text |-> IF text[i] \in UnsafeChars THEN "_" ELSE text[i]]

\* `${testPath}-${testName}-${startTime}`.replace(/[^a-zA-Z0-9-_]/g, '_')
recordId(this, startTime) ==
    sanitize(testPath(this) \o <<"-">> \o testName(this) \o <<"-", ToString(startTime)>>)

\* the EvaluationRecord built from the evaluation; timestamp is kept as the
\* millisecond count that toISOString() prints
record(receivedConversation, criteria, evaluationData, startTime, endTime) ==
    [id           |-> recordId(MatcherContext, startTime),
     testPath     |-> testPath(MatcherContext),
     testName     |-> testName(MatcherContext),
     timestamp    |-> startTime,
     durationMs   |-> endTime - startTime,
     modelId      |-> "judge",
     conversation |-> receivedConversation.value,
     criteria     |-> criteria.value,
     results      |-> evaluationData.results,
     usage        |-> evaluationData.usage,
     passed       |-> allPassed(evaluationData.results)]

\* mutant of storeOrEmpty: loading the module again starts a new store
storeOrEmpty_reset(existing) == <<>>

\* global.evaluationRecords || []: the store that exists, or a new empty one
storeOrEmpty(existing) == IF Truthy(existing) THEN existing.value ELSE <<>>

\* mutant of push: the newest record comes first
push_front(store, rec) == <<rec>> \o store

\* mutant of push: only failed evaluations are recorded
push_failedOnly(store, rec) == IF rec.passed THEN store ELSE Append(store, rec)

\* global.evaluationRecords.push(record)
push(store, rec) == Append(store, rec)

\* mutant of rejection: the error is turned into a failed assertion
rejection_swallowed(error) ==
    [kind |-> "returned", pass |-> FALSE, message |-> <<"judge failed: ", error>>]

\* a rejected judge call rejects the matcher's promise with the same error
rejection(error) == [kind |-> "rejected", error |-> error]

returned(result) == [kind |-> "returned", pass |-> result.pass, message |-> result.message]

(***************************************************************************)
(* test-utils: toPassWithConfidence.                                       *)
(* Rates are exact fractions <<numerator, denominator>> with a positive    *)
(* denominator.  The source divides and compares IEEE doubles; division is *)
(* correctly rounded and monotone, so for the small counts used here       *)
(* successes / iterations >= minSuccessRate holds of the doubles exactly   *)
(* when it holds of the fractions.                                         *)
(***************************************************************************)
DefaultIterations == 10

DefaultMinSuccessRate == <<8, 10>>

\* the explicit minSuccessRate options tried
MinSuccessRates == {<<1, 2>>, <<1, 1>>}

\* the options objects handed to the matcher; an absent field is undefined
ConfidenceOptions ==
    [iterations : {None} \cup {Some(n) : n \in 1..MaxIterations},
     minSuccessRate : {None} \cup {Some(r) : r \in MinSuccessRates}]

\* errors the test function can throw or reject with
TestErrors == {"criteria failed"}

\* const { iterations = 10, minSuccessRate = 0.8 } = options
iterationsOf(options) ==
    IF options.iterations.defined THEN options.iterations.value ELSE DefaultIterations

minSuccessRateOf(options) ==
    IF options.minSuccessRate.defined THEN options.minSuccessRate.value
    ELSE DefaultMinSuccessRate

\* the value an iteration's callback resolves with: true when the awaited test
\* function completed, false when the catch block ran
iterationValue(completed) == IF completed THEN "true" ELSE "false"

\* `Iteration ${i + 1}/${iterations} failed: ${errorMessage}` (i + 1 is the
\* 1-based index used for iterations here)
iterationLog(i, iterations, errorMessage) ==
    <<"Iteration ", ToString(i), "/", ToString(iterations), " failed: ", errorMessage>>

\* results.filter(r => r.status === 'fulfilled' && r.value).length
successes(settled) == Cardinality({i \in DOMAIN settled : settled[i] = "true"})

\* successes / iterations
successRate(succ, iterations) == <<succ, iterations>>

\* mutant of meetsThreshold: strict comparison
meetsThreshold_strict(rate, minRate) == rate[1] * minRate[2] > minRate[1] * rate[2]

\* successRate >= minSuccessRate
meetsThreshold(rate, minRate) == rate[1] * minRate[2] >= minRate[1] * rate[2]

\* rate.toFixed(2) in hundredths, ties away from zero (no count used here
\* gives a tie that is not exact in binary)
toFixed2(rate) == (200 * rate[1] + rate[2]) \div (2 * rate[2])

rateText(rate) == <<ToString(rate[1]), "/", ToString(rate[2])>>

\* the matcher result once every iteration has settled
confidenceResult(settled, iterations, minRate) ==
    LET succ == successes(settled)
        rate == successRate(succ, iterations)
    IN  IF meetsThreshold(rate, minRate)
        THEN [kind |-> "returned", pass |-> TRUE,
              message |-> <<"expected success rate (", ToString(toFixed2(rate)),
                            "/100) for test function not to be >= ">> \o rateText(minRate)]
        ELSE [kind |-> "returned", pass |-> FALSE,
              message |-> <<"expected success rate for test function to be >= ">>
                          \o rateText(minRate)
                          \o <<", but got ", ToString(toFixed2(rate)), "/100 (",
                               ToString(succ), "/", ToString(iterations), " passed)">>]

IdleCall ==
    [pc |-> "idle", receivedConversation |-> None, criteria |-> None, judge |-> None,
     startTime |-> 0, judgeCalls |-> 0, settled |-> None, answer |-> None,
     judgeError |-> None,
     evaluationData |-> None, recordAt |-> None, outcome |-> None]

IdleTool == [pc |-> "idle"]

IdleMatch == [pc |-> "idle"]

IdleRun ==
    [pc |-> "idle", userMessages |-> <<>>, hasOnStep |-> FALSE, i |-> 0,
     history |-> <<>>, modelHistory |-> <<>>, prompts |-> <<>>, generated |-> <<>>,
     onStepCalls |-> <<>>, generateCalls |-> 0, inFlight |-> 0, events |-> <<>>,
     outcome |-> None]

\* new CriteriaBuilder(): arrays holds the contents of every array allocated,
\* by identity; arrays[1] is the private currentCriteria.  adds and builds
\* keep what the caller passed to add() and got from build(); returned is
\* what the last call returned (this, or the array of that identity)
defineEvaluationCriteria ==
    [arrays |-> <<<<>>>>, adds |-> <<>>, builds |-> <<>>, returned |-> None]

\* no reporter constructed, no report generated
NoReporter == [constructed |-> {}, reports |-> <<>>]

IdleConf ==
    [pc |-> "idle", options |-> [iterations |-> None, minSuccessRate |-> None],
     iterations |-> 0, minSuccessRate |-> <<0, 1>>, testFnCalls |-> 0,
     settled |-> <<>>, log |-> {}, outcome |-> None]

Init ==
    /\ calls = [c \in CallIds |-> IdleCall]
    /\ evaluationRecords = storeOrEmpty(None)
    /\ conf = IdleConf
    /\ plan = <<>>
    /\ order = <<>>
    /\ tool = IdleTool
    /\ match = IdleMatch
    /\ run = IdleRun
    /\ builder = defineEvaluationCriteria
    /\ reporter = NoReporter
    /\ now = 0

\* mutant of Invoke: the judge is invoked before the inputs are validated
Invoke_judgeFirst(c, receivedConversation, criteria, judge) ==
    /\ calls[c].pc = "idle"
    /\ LET v == validationResult(receivedConversation, criteria, judge)
           started == [calls[c] EXCEPT !.startTime = now,
                                       !.receivedConversation = receivedConversation,
                                       !.criteria = criteria,
                                       !.judge = judge,
                                       !.judgeCalls = judgeCallsAfterEvaluate(@)]
       IN  IF v.defined
           THEN calls' = [calls EXCEPT ![c] =
                    [started EXCEPT !.pc = "done", !.outcome = Some(returned(v.value))]]
           ELSE calls' = [calls EXCEPT ![c] = [started EXCEPT !.pc = "awaiting"]]
    /\ UNCHANGED <<evaluationRecords, conf, plan, order, tool, match, run, builder, reporter, now>>

\* expect(receivedConversation).toPassAllCriteria(criteria, judge), up to its
\* first suspension: either an early return, or the judge call is in flight
Invoke(c, receivedConversation, criteria, judge) ==
    /\ calls[c].pc = "idle"
    /\ LET v == validationResult(receivedConversation, criteria, judge)
           started == [calls[c] EXCEPT !.startTime = now,
                                       !.receivedConversation = receivedConversation,
                                       !.criteria = criteria,
                                       !.judge = judge]
       IN  IF v.defined
           THEN calls' = [calls EXCEPT ![c] =
                    [started EXCEPT !.pc = "done", !.outcome = Some(returned(v.value))]]
           ELSE calls' = [calls EXCEPT ![c] =
                    [started EXCEPT !.pc = "awaiting",
                                    !.judgeCalls = judgeCallsAfterEvaluate(@)]]
    /\ UNCHANGED <<evaluationRecords, conf, plan, order, tool, match, run, builder, reporter, now>>

\* the judge call of invocation c resolves: the engine returns, the matcher
\* aggregates, appends its record and returns
JudgeResolves(c, answer) ==
    /\ calls[c].pc = "awaiting"
    /\ LET evaluationData == evaluateAiResponse(judgeToUse(calls[c].judge, answer))
           rec == record(calls[c].receivedConversation, calls[c].criteria, evaluationData,
                         calls[c].startTime, now)
       IN  /\ evaluationRecords' = push(evaluationRecords, rec)
           /\ calls' = [calls EXCEPT ![c] =
                    [@ EXCEPT !.pc = "done",
                              !.answer = Some(answer),
                              !.evaluationData = Some(evaluationData),
                              !.recordAt = Some(Len(evaluationRecords')),
                              !.outcome = Some(returned(matcherResult(evaluationData.results)))]]
    /\ UNCHANGED <<conf, plan, order, tool, match, run, builder, reporter, now>>

\* mutant of JudgeRejects: the first rejection is retried once
JudgeRejects_retry(c, error) ==
    /\ calls[c].pc = "awaiting"
    /\ IF calls[c].judgeCalls < 2
       THEN calls' = [calls EXCEPT ![c] = [@ EXCEPT !.judgeCalls = @ + 1]]
       ELSE calls' = [calls EXCEPT ![c] =
                [@ EXCEPT !.pc = "done",
                          !.judgeError = Some(error),
                          !.outcome = Some([kind |-> "rejected", error |-> error])]]
    /\ UNCHANGED <<evaluationRecords, conf, plan, order, tool, match, run, builder, reporter, now>>

\* the judge call of invocation c rejects: nothing catches it
JudgeRejects(c, error) ==
    /\ calls[c].pc = "awaiting"
    /\ calls' = [calls EXCEPT ![c] =
            [@ EXCEPT !.pc = "done",
                      !.judgeError = Some(error),
                      !.outcome = Some(rejection(error))]]
    /\ UNCHANGED <<evaluationRecords, conf, plan, order, tool, match, run, builder, reporter, now>>

Next ==
    \/ \E c \in CallIds, rc \in ConversationInputs, cr \in CriteriaInputs, j \in JudgeInputs :
          Invoke(c, rc, cr, j)
    \/ \E c \in CallIds, a \in JudgeAnswers : JudgeResolves(c, a)
    \/ \E c \in CallIds, e \in JudgeErrors : JudgeRejects(c, e)

Spec == Init /\ [][Next]_vars

\* expect(receivedTestFn).toPassWithConfidence(options), up to its suspension
\* on Promise.allSettled: map() has started every iteration, and each has
\* called the test function and is awaiting it
ConfidenceInvoke(options) ==
    /\ conf.pc = "idle"
    /\ conf' = [conf EXCEPT !.pc = "running",
                            !.options = options,
                            !.iterations = iterationsOf(options),
                            !.minSuccessRate = minSuccessRateOf(options),
                            !.testFnCalls = iterationsOf(options),
                            !.settled = [i \in 1..iterationsOf(options) |-> "pending"]]
    /\ UNCHANGED <<calls, evaluationRecords, tool, match, run, builder, reporter, now>>

\* mutant of TestFnCompletes: the matcher resolves on the first iteration that
\* completes (Promise.any in place of Promise.allSettled)
TestFnCompletes_race(i) ==
    /\ conf.pc = "running"
    /\ i \in DOMAIN conf.settled
    /\ conf.settled[i] = "pending"
    /\ conf' = [conf EXCEPT !.pc = "done",
                            !.settled[i] = "true",
                            !.outcome = Some([kind |-> "returned", pass |-> TRUE,
                                              message |-> <<"first iteration passed">>])]
    /\ UNCHANGED <<calls, evaluationRecords, tool, match, run, builder, reporter, now>>

\* the test function awaited by iteration i completes
TestFnCompletes(i) ==
    /\ conf.pc = "running"
    /\ i \in DOMAIN conf.settled
    /\ conf.settled[i] = "pending"
    /\ conf' = [conf EXCEPT !.settled[i] = iterationValue(TRUE)]
    /\ UNCHANGED <<calls, evaluationRecords, tool, match, run, builder, reporter, now>>

\* mutant of TestFnThrows: no try/catch under a fail-fast Promise.all, so the
\* first throw rejects the matcher while other iterations are in flight
TestFnThrows_failFast(i, error) ==
    /\ conf.pc = "running"
    /\ i \in DOMAIN conf.settled
    /\ conf.settled[i] = "pending"
    /\ conf' = [conf EXCEPT !.pc = "done",
                            !.settled[i] = "rejected",
                            !.outcome = Some([kind |-> "rejected", error |-> error])]
    /\ UNCHANGED <<calls, evaluationRecords, tool, match, run, builder, reporter, now>>

\* the test function awaited by iteration i throws: caught, logged, false
TestFnThrows(i, error) ==
    /\ conf.pc = "running"
    /\ i \in DOMAIN conf.settled
    /\ conf.settled[i] = "pending"
    /\ conf' = [conf EXCEPT !.settled[i] = iterationValue(FALSE),
                            !.log = @ \cup {iterationLog(i, conf.iterations, error)}]
    /\ UNCHANGED <<calls, evaluationRecords, tool, match, run, builder, reporter, now>>

\* mutant of ConfidenceAggregate: the matcher counts as soon as one iteration
\* has settled
ConfidenceAggregate_early ==
    /\ conf.pc = "running"
    /\ \E i \in DOMAIN conf.settled : conf.settled[i] # "pending"
    /\ conf' = [conf EXCEPT !.pc = "done",
                            !.outcome = Some(confidenceResult(conf.settled, conf.iterations,
                                                              conf.minSuccessRate))]
    /\ UNCHANGED <<calls, evaluationRecords, tool, match, run, builder, reporter, now>>

\* Promise.allSettled resolves once no iteration is pending; the matcher
\* counts and returns
ConfidenceAggregate ==
    /\ conf.pc = "running"
    /\ \A i \in DOMAIN conf.settled : conf.settled[i] # "pending"
    /\ conf' = [conf EXCEPT !.pc = "done",
                            !.outcome = Some(confidenceResult(conf.settled, conf.iterations,
                                                              conf.minSuccessRate))]
    /\ UNCHANGED <<calls, evaluationRecords, tool, match, run, builder, reporter, now>>

\* the test function is free to complete or throw in every iteration
NextConfidence ==
    \/ \E o \in ConfidenceOptions : ConfidenceInvoke(o) /\ UNCHANGED <<plan, order>>
    \/ \E i \in 1..DefaultIterations : TestFnCompletes(i) /\ UNCHANGED <<plan, order>>
    \/ \E i \in 1..DefaultIterations, e \in TestErrors :
          TestFnThrows(i, e) /\ UNCHANGED <<plan, order>>
    \/ ConfidenceAggregate /\ UNCHANGED <<plan, order>>

SpecConfidence == Init /\ [][NextConfidence]_vars

\* the event loop runs the continuation of a resolved Promise.allSettled: the
\* aggregation is not postponed forever once it can run.  Nothing is assumed
\* of the test function, which may never settle.
SpecConfidenceLive ==
    /\ Init
    /\ [][NextConfidence]_vars
    /\ WF_vars(ConfidenceAggregate /\ UNCHANGED <<plan, order>>)

(***************************************************************************)
(* toPassWithConfidence against a test function whose outcome in each      *)
(* iteration is fixed beforehand (plan), with the settle order recorded.   *)
(***************************************************************************)
\* the options with an explicit number of iterations
PlannedOptions == {o \in ConfidenceOptions : o.iterations.defined}

\* the matcher is invoked on a test function that follows plan p
PlannedInvoke(options, p) ==
    /\ ConfidenceInvoke(options)
    /\ plan' = p
    /\ order' = <<>>

\* iteration i settles as planned: the test function completes
PlannedCompletes(i) ==
    /\ i \in DOMAIN plan
    /\ plan[i]
    /\ TestFnCompletes(i)
    /\ order' = Append(order, i)
    /\ UNCHANGED plan

\* iteration i settles as planned: the test function throws
PlannedThrows(i, error) ==
    /\ i \in DOMAIN plan
    /\ ~plan[i]
    /\ TestFnThrows(i, error)
    /\ order' = Append(order, i)
    /\ UNCHANGED plan

PlannedAggregate == ConfidenceAggregate /\ UNCHANGED <<plan, order>>

NextInterleaving ==
    \/ \E o \in PlannedOptions :
          \E p \in [1..iterationsOf(o) -> BOOLEAN] : PlannedInvoke(o, p)
    \/ \E i \in 1..MaxIterations : PlannedCompletes(i)
    \/ \E i \in 1..MaxIterations, e \in TestErrors : PlannedThrows(i, e)
    \/ PlannedAggregate

SpecInterleaving == Init /\ [][NextInterleaving]_vars

(***************************************************************************)
(* JavaScript values handed to the tool-call matchers: undefined, numbers, *)
(* arrays and plain objects (a function from its own keys to values).      *)
(***************************************************************************)
Undefined == [t |-> "undefined"]

Num(n) == [t |-> "number", num |-> n]

Arr(elements) == [t |-> "array", items |-> elements]

Obj(entries) == [t |-> "object", fields |-> entries]

\* the object with no key
EmptyObj == Obj([k \in {} |-> Undefined])

\* { a: 1 }
ObjA1 == Obj([k \in {"a"} |-> Num(1)])

Keys == {"a", "b", "arr"}

Primitives == {Undefined, Num(1), Num(2)}

Arrays == {Arr(<<Num(1), Num(2)>>), Arr(<<Num(1), Num(2), Num(3)>>)}

\* the objects nested under a key
NestedObjects == {EmptyObj, Obj([k \in {"a"} |-> Num(1)])}

\* every object whose keys are among Keys, each holding a primitive, an array
\* or a nested object
Objects ==
    {Obj(f) : f \in UNION {[K -> Primitives \cup Arrays \cup NestedObjects] : K \in SUBSET Keys}}

\* !x is false for arrays and objects, true for undefined and 0
JsTruthy(x) ==
    CASE x.t = "undefined" -> FALSE
      [] x.t = "number" -> x.num # 0
      [] OTHER -> TRUE

\* a === b: primitives by value; two arrays or two objects only when they are
\* the same reference, which two separately built values never are
StrictEq(a, b) ==
    /\ a.t = b.t
    /\ \/ a.t = "undefined"
       \/ a.t = "number" /\ a.num = b.num

\* x[key] for a property name: undefined unless x is an object that has the key
Get(x, key) ==
    IF x.t = "object" /\ key \in DOMAIN x.fields THEN x.fields[key] ELSE Undefined

\* x[i] for the 0-based index i - 1: undefined beyond the end of the array
At(x, i) == IF i \in 1..Len(x.items) THEN x.items[i] ELSE Undefined

\* the keys of Object.entries(expected) for an object; a number has none
EntryKeys(x) == IF x.t = "object" THEN DOMAIN x.fields ELSE {}

(***************************************************************************)
(* test-utils: deepPartialMatch.                                           *)
(***************************************************************************)
\* mutant of arrayMatches: the arrays must have the same length
arrayMatches_sameLength(actualValue, val) ==
    /\ actualValue.t = "array"
    /\ Len(actualValue.items) = Len(val.items)
    /\ \A i \in 1..Len(val.items) : StrictEq(At(actualValue, i), val.items[i])

\* Array.isArray(actual[key]) && val.every((v, i) => actual[key][i] === v)
arrayMatches(actualValue, val) ==
    /\ actualValue.t = "array"
    /\ \A i \in 1..Len(val.items) : StrictEq(At(actualValue, i), val.items[i])

RECURSIVE deepPartialMatch(_, _)
deepPartialMatch(actual, expected) ==
    IF ~JsTruthy(expected) THEN TRUE
    ELSE IF ~JsTruthy(actual) THEN FALSE
    ELSE \A key \in EntryKeys(expected) :
            LET val == expected.fields[key]
            IN  IF val.t = "object" THEN deepPartialMatch(Get(actual, key), val)
                ELSE IF val.t = "array" THEN arrayMatches(Get(actual, key), val)
                ELSE StrictEq(Get(actual, key), val)

\* deepPartialMatch(actual, expected) is called and returns
Match(actual, expected) ==
    /\ match.pc = "idle"
    /\ match' = [pc |-> "done", actual |-> actual, expected |-> expected,
                 result |-> deepPartialMatch(actual, expected)]
    /\ UNCHANGED <<calls, evaluationRecords, conf, plan, order, tool, run, builder, reporter, now>>

NextDeepMatch ==
    /\ match.pc = "idle"
    /\ \E actual \in Objects \cup {Undefined}, expected \in Objects \cup {Undefined} :
          Match(actual, expected)

SpecDeepMatch == Init /\ [][NextDeepMatch]_vars

(***************************************************************************)
(* Conversations handed to the tool-call matchers (types.ts).              *)
(***************************************************************************)
\* { type: 'tool-call', toolName, input }
ToolCallPart(toolName, input) ==
    [type |-> "tool-call", toolName |-> Some(toolName), input |-> input]

\* { type: 'tool-result', toolName, output }: no input
ToolResultPart(toolName) ==
    [type |-> "tool-result", toolName |-> Some(toolName), input |-> Undefined]

ObjA2 == Obj([k \in {"a"} |-> Num(2)])

MessageParts ==
    {ToolResultPart("search"), ToolCallPart("calc", ObjA1),
     ToolCallPart("search", ObjA1), ToolCallPart("search", ObjA2)}

\* content: string | MessagePart[]
StringContent == [isArray |-> FALSE, parts |-> <<>>]

ArrayContent(parts) == [isArray |-> TRUE, parts |-> parts]

Roles == {"user", "assistant", "tool"}

GenericMessages ==
    [role : Roles,
     content : {StringContent} \cup {ArrayContent(ps) : ps \in SeqsUpTo(MessageParts, MaxParts)}]

\* the conversations of at most two messages
ReceivedInputs ==
    {<<>>} \cup {<<m>> : m \in GenericMessages}
           \cup {<<m, n>> : m \in GenericMessages, n \in GenericMessages}

\* expectedArgs: omitted, {}, {a:1} or {a:2}
ExpectedArgsInputs == {Undefined, EmptyObj, ObjA1, ObjA2}

(***************************************************************************)
(* test-utils: toHaveToolCallResult.                                       *)
(***************************************************************************)
\* mutant of toolMessages: messages of every role are scanned
toolMessages_anyRole(received) == received

\* received.filter(msg => msg.role === 'tool')
toolMessages(received) ==
    SelectSeq(received, LAMBDA msg : msg.role = "tool")

hasCall(received, toolName) ==
    \E c \in DOMAIN toolMessages(received) :
        LET call == toolMessages(received)[c]
        IN  /\ call.content.isArray
            /\ \E e \in DOMAIN call.content.parts :
                  call.content.parts[e].toolName = Some(toolName)

toHaveToolCallResult(received, toolName) ==
    [pass |-> hasCall(received, toolName),
     message |-> [outcome |-> IF hasCall(received, toolName)
                                THEN "but it did" ELSE "but none was found",
                  toolName |-> toolName]]

(***************************************************************************)
(* test-utils: toHaveToolCall.                                             *)
(***************************************************************************)
\* mutant of assistantMsgs: messages of every role are scanned
assistantMsgs_anyRole(received) == received

\* received.filter(msg => msg.role === 'assistant')
assistantMsgs(received) ==
    SelectSeq(received, LAMBDA msg : msg.role = "assistant")

\* the variables of the scan before the first message
ScanStart == [found |-> FALSE, foundWithArgs |-> FALSE, actualArgs |-> Undefined]

\* mutant of scanEntries: the inner loop stops at the first entry whose name
\* matches, whether or not its arguments are accepted
RECURSIVE scanEntries_firstName(_, _, _, _)
scanEntries_firstName(entries, toolName, expectedArgs, scan) ==
    IF entries = <<>> THEN scan
    ELSE LET e == Head(entries)
         IN  IF e.type = "tool-call" /\ e.toolName = Some(toolName)
             THEN [found |-> TRUE, actualArgs |-> e.input,
                   foundWithArgs |-> \/ ~JsTruthy(expectedArgs)
                                     \/ deepPartialMatch(e.input, expectedArgs)]
             ELSE scanEntries_firstName(Tail(entries), toolName, expectedArgs, scan)

\* for (const entry of msg.content): the scan variables after the loop
RECURSIVE scanEntries(_, _, _, _)
scanEntries(entries, toolName, expectedArgs, scan) ==
    IF entries = <<>> THEN scan
    ELSE LET e == Head(entries)
         IN  IF e.type = "tool-call" /\ e.toolName = Some(toolName)
             THEN IF ~JsTruthy(expectedArgs) \/ deepPartialMatch(e.input, expectedArgs)
                  THEN [found |-> TRUE, actualArgs |-> e.input, foundWithArgs |-> TRUE]
                  ELSE scanEntries(Tail(entries), toolName, expectedArgs,
                                   [found |-> TRUE, actualArgs |-> e.input,
                                    foundWithArgs |-> scan.foundWithArgs])
             ELSE scanEntries(Tail(entries), toolName, expectedArgs, scan)

\* for (const msg of assistantMsgs): the scan variables after the loop
RECURSIVE scanMessages(_, _, _, _)
scanMessages(msgs, toolName, expectedArgs, scan) ==
    IF msgs = <<>> THEN scan
    ELSE LET msg == Head(msgs)
             after == IF msg.content.isArray
                        THEN scanEntries(msg.content.parts, toolName, expectedArgs, scan)
                        ELSE scan
         IN  IF after.foundWithArgs THEN after
             ELSE scanMessages(Tail(msgs), toolName, expectedArgs, after)

\* the message names the tool, shows expectedArgs when given (Undefined stands
\* for the empty text) and, on a mismatch, the actual args
toHaveToolCall(received, toolName, expectedArgs) ==
    LET scan == scanMessages(assistantMsgs(received), toolName, expectedArgs, ScanStart)
    IN  [pass |-> scan.foundWithArgs,
         message |->
            IF scan.foundWithArgs
              THEN [outcome |-> "but it did", toolName |-> toolName,
                    expectedArgs |-> expectedArgs, actualArgs |-> Undefined]
            ELSE IF scan.found
              THEN [outcome |-> "but args did not match", toolName |-> toolName,
                    expectedArgs |-> expectedArgs, actualArgs |-> scan.actualArgs]
              ELSE [outcome |-> "but none was found", toolName |-> toolName,
                    expectedArgs |-> Undefined, actualArgs |-> Undefined]]

\* mutant of receivedAfter: the filter is done in place
receivedAfter_inPlace(received) == SelectSeq(received, LAMBDA msg : msg.role = "tool")

\* the received array when a tool-call matcher returns: filter() and some()
\* build new arrays and no statement assigns to received or to a message
receivedAfter(received) == received

\* expect(received).toHaveToolCallResult(toolName)
HaveToolCallResult(received, toolName) ==
    /\ tool.pc = "idle"
    /\ tool' = [pc |-> "done", matcher |-> "toHaveToolCallResult",
                received |-> received, after |-> receivedAfter(received),
                toolName |-> toolName, expectedArgs |-> Undefined,
                result |-> toHaveToolCallResult(received, toolName)]
    /\ UNCHANGED <<calls, evaluationRecords, conf, plan, order, match, run, builder, reporter, now>>

\* expect(received).toHaveToolCall(toolName, expectedArgs)
HaveToolCall(received, toolName, expectedArgs) ==
    /\ tool.pc = "idle"
    /\ tool' = [pc |-> "done", matcher |-> "toHaveToolCall",
                received |-> received, after |-> receivedAfter(received),
                toolName |-> toolName, expectedArgs |-> expectedArgs,
                result |-> toHaveToolCall(received, toolName, expectedArgs)]
    /\ UNCHANGED <<calls, evaluationRecords, conf, plan, order, match, run, builder, reporter, now>>

NextTool ==
    \/ /\ tool.pc = "idle"
       /\ \E received \in ReceivedInputs : HaveToolCallResult(received, "search")
    \/ /\ tool.pc = "idle"
       /\ \E received \in ReceivedInputs, expectedArgs \in ExpectedArgsInputs :
             HaveToolCall(received, "search", expectedArgs)

SpecTool == Init /\ [][NextTool]_vars

(***************************************************************************)
(* test-utils: runMultiStepTest.  Besides the function's own variables     *)
(* (i, history, modelHistory) the record keeps what its collaborators      *)
(* observe: the history each createAgentPrompt call received (prompts),    *)
(* the messages each generation returned (generated), the arguments of     *)
(* each onStep call, the number of generation calls made and in flight,    *)
(* and the order of these events.                                          *)
(***************************************************************************)
UserTexts == {"hello", "where is my order"}

UserMessagesInputs == SeqsUpTo(UserTexts, MaxTurns)

\* result.response.messages of one generation
ResponseMessages ==
    {<<>>,
     <<[role |-> "assistant", content |-> "reply"]>>,
     <<[role |-> "assistant", content |-> "tool-call"],
       [role |-> "tool", content |-> "tool-result"]>>}

GenerateErrors == {"rate limit"}

\* { role: 'user', content: userMessages[i] }
userMsg(content) == [role |-> "user", content |-> content]

Event(kind, step) == [kind |-> kind, step |-> step]

\* mutant of beginStep: two generation calls are started for the turn
beginStep_twice(r, i) ==
    LET msg == userMsg(r.userMessages[i + 1])
    IN  [r EXCEPT !.pc = "generating",
                  !.i = i,
                  !.history = Append(@, msg),
                  !.modelHistory = Append(@, msg),
                  !.prompts = Append(@, Append(r.history, msg)),
                  !.generateCalls = @ + 2,
                  !.inFlight = @ + 2,
                  !.events = @ \o <<Event("createAgentPrompt", i),
                                    Event("generateText", i), Event("generateText", i)>>]

\* the loop body of turn i up to the await: the user message is pushed to
\* both histories, createAgentPrompt receives history, generateText starts
beginStep(r, i) ==
    LET msg == userMsg(r.userMessages[i + 1])
    IN  [r EXCEPT !.pc = "generating",
                  !.i = i,
                  !.history = Append(@, msg),
                  !.modelHistory = Append(@, msg),
                  !.prompts = Append(@, Append(r.history, msg)),
                  !.generateCalls = @ + 1,
                  !.inFlight = @ + 1,
                  !.events = @ \o <<Event("createAgentPrompt", i),
                                    Event("generateText", i)>>]

\* mutant of appendAssistant: the generated messages also enter history
appendAssistant_bothHistories(r, responseMsgs) ==
    [r EXCEPT !.inFlight = @ - 1,
              !.generated = Append(@, responseMsgs),
              !.history = @ \o responseMsgs,
              !.modelHistory = @ \o responseMsgs,
              !.events = Append(@, Event("generated", r.i))]

\* the generation of turn i resolved: modelHistory = [...modelHistory, ...responseMsgs]
appendAssistant(r, responseMsgs) ==
    [r EXCEPT !.inFlight = @ - 1,
              !.generated = Append(@, responseMsgs),
              !.modelHistory = @ \o responseMsgs,
              !.events = Append(@, Event("generated", r.i))]

\* mutant of invokeOnStep: the step index is 1-based
invokeOnStep_oneBased(r) ==
    IF r.hasOnStep
      THEN [r EXCEPT !.onStepCalls =
                        Append(@, [conversation |-> r.modelHistory, stepIndex |-> r.i + 1]),
                     !.events = Append(@, Event("onStep", r.i))]
      ELSE r

\* if (options.onStep) options.onStep(modelHistory, i)
invokeOnStep(r) ==
    IF r.hasOnStep
      THEN [r EXCEPT !.onStepCalls =
                        Append(@, [conversation |-> r.modelHistory, stepIndex |-> r.i]),
                     !.events = Append(@, Event("onStep", r.i))]
      ELSE r

\* the loop test for turn i: another turn begins, or modelHistory is returned
forLoop(r, i) ==
    IF i < Len(r.userMessages)
      THEN beginStep(r, i)
      ELSE [r EXCEPT !.pc = "done",
                     !.outcome = Some([kind |-> "returned", value |-> r.modelHistory])]

\* runMultiStepTest(userMessages, { createAgentPrompt, onStep? }) up to its
\* first await
RunStart(userMessages, hasOnStep) ==
    /\ run.pc = "idle"
    /\ run' = forLoop([IdleRun EXCEPT !.userMessages = userMessages,
                                      !.hasOnStep = hasOnStep], 0)
    /\ UNCHANGED <<calls, evaluationRecords, conf, plan, order, tool, match, builder, reporter, now>>

\* generateText resolves: the rest of the turn and the next turn up to its await
GenerateResolves(responseMsgs) ==
    /\ run.pc = "generating"
    /\ run' = LET stepped == invokeOnStep(appendAssistant(run, responseMsgs))
              IN  forLoop(stepped, stepped.i + 1)
    /\ UNCHANGED <<calls, evaluationRecords, conf, plan, order, tool, match, builder, reporter, now>>

\* generateText rejects: the rejection leaves runMultiStepTest
GenerateRejects(error) ==
    /\ run.pc = "generating"
    /\ run' = [run EXCEPT !.pc = "done",
                          !.inFlight = @ - 1,
                          !.events = Append(@, Event("rejected", run.i)),
                          !.outcome = Some([kind |-> "thrown", value |-> error])]
    /\ UNCHANGED <<calls, evaluationRecords, conf, plan, order, tool, match, builder, reporter, now>>

NextRun ==
    \/ \E userMessages \in UserMessagesInputs, hasOnStep \in BOOLEAN :
          RunStart(userMessages, hasOnStep)
    \/ \E responseMsgs \in ResponseMessages : GenerateResolves(responseMsgs)
    \/ \E error \in GenerateErrors : GenerateRejects(error)

SpecRun == Init /\ [][NextRun]_vars

(***************************************************************************)
(* evaluation-utils: CriteriaBuilder.                                      *)
(***************************************************************************)
\* a criterion that is not in the predefined table
CustomCriterion == [id |-> "polite", description |-> "The response is polite"]

\* what add() is called with: a string key (the last one is not a key of
\* CRITERIA) or a criterion object
AddInputs ==
    {[kind |-> "string", key |-> k] : k \in {"Welcome", "Relevance", "Tone"}}
        \cup {[kind |-> "object", criterion |-> c] : c \in {CustomCriterion}}

\* CRITERIA[arg]: undefined when the table has no such key
lookup(key) == IF key \in DOMAIN CRITERIA THEN CRITERIA[key] ELSE Undefined

\* the entry add(arg) pushes
pushed(arg) == IF arg.kind = "string" THEN lookup(arg.key) ELSE arg.criterion

\* mutant of Add: an entry already in the list is not pushed again
Add_dedup(arg) ==
    /\ Len(builder.adds) < MaxAdds
    /\ builder' = [builder EXCEPT
                      !.arrays[1] = IF \E i \in DOMAIN @ : @[i] = pushed(arg)
                                      THEN @ ELSE Append(@, pushed(arg)),
                      !.adds = Append(@, arg),
                      !.returned = Some([kind |-> "returned", value |-> "this", array |-> 0])]
    /\ UNCHANGED <<calls, evaluationRecords, conf, plan, order, tool, match, run, reporter, now>>

\* builder.add(arg): push, return this
Add(arg) ==
    /\ Len(builder.adds) < MaxAdds
    /\ builder' = [builder EXCEPT !.arrays[1] = Append(@, pushed(arg)),
                                  !.adds = Append(@, arg),
                                  !.returned = Some([kind |-> "returned", value |-> "this", array |-> 0])]
    /\ UNCHANGED <<calls, evaluationRecords, conf, plan, order, tool, match, run, reporter, now>>

\* mutant of build: the private array itself is returned
build_alias(b) ==
    [b EXCEPT !.builds = Append(@, [array |-> 1, adds |-> Len(b.adds),
                                    contents |-> b.arrays[1]]),
              !.returned = Some([kind |-> "returned", value |-> "array", array |-> 1])]

\* return [...this.currentCriteria]: a new array with the same entries
build(b) ==
    [b EXCEPT !.arrays = Append(@, b.arrays[1]),
              !.builds = Append(@, [array |-> Len(b.arrays) + 1, adds |-> Len(b.adds),
                                    contents |-> b.arrays[1]]),
              !.returned = Some([kind |-> "returned", value |-> "array",
                                 array |-> Len(b.arrays) + 1])]

\* builder.build()
Build ==
    /\ Len(builder.builds) < MaxBuilds
    /\ builder' = build(builder)
    /\ UNCHANGED <<calls, evaluationRecords, conf, plan, order, tool, match, run, reporter, now>>

NextBuilder ==
    \/ \E arg \in AddInputs : Add(arg)
    \/ Build

SpecBuilder == Init /\ [][NextBuilder]_vars

(***************************************************************************)
(* The record store and everything that touches it: the test-utils module  *)
(* being loaded again, the reporters, and the matchers.                    *)
(***************************************************************************)
ReporterKinds == {"EvaluationReporter", "TerminalReporter"}

\* if (global.evaluationRecords === undefined) global.evaluationRecords = []
storeIfUndefined(existing) == IF existing.defined THEN existing.value ELSE <<>>

\* what a report shows of the records it read: records.map(r => ({ id, passed }))
overviewData(records) ==
    [i \in DOMAIN records |-> [id |-> records[i].id, passed |-> records[i].passed]]

\* the test-utils module is loaded again in the same process
SetupModule ==
    /\ evaluationRecords' = storeOrEmpty(Some(evaluationRecords))
    /\ UNCHANGED <<calls, conf, plan, order, tool, match, run, builder, reporter, now>>

\* new EvaluationReporter(...) / new TerminalReporter(...)
ReporterConstructed(kind) ==
    /\ kind \notin reporter.constructed
    /\ reporter' = [reporter EXCEPT !.constructed = @ \cup {kind}]
    /\ evaluationRecords' = storeIfUndefined(Some(evaluationRecords))
    /\ UNCHANGED <<calls, conf, plan, order, tool, match, run, builder, now>>

\* reporter.onRunComplete(): nothing is generated for an empty store,
\* otherwise the report is generated from the records read
OnRunComplete(kind) ==
    /\ kind \in reporter.constructed
    /\ Len(reporter.reports) < MaxReports
    /\ reporter' = [reporter EXCEPT !.reports =
                       Append(@, [reporter |-> kind,
                                  generated |-> Len(evaluationRecords) # 0,
                                  records |-> overviewData(evaluationRecords)])]
    /\ UNCHANGED <<calls, evaluationRecords, conf, plan, order, tool, match, run, builder, now>>

\* the millisecond clock advances
Tick ==
    /\ now < MaxClock
    /\ now' = now + 1
    /\ UNCHANGED <<calls, evaluationRecords, conf, plan, order, tool, match, run, builder, reporter>>

\* the inputs of the invocations made while the store is observed
StoreConversations == {None, Some(<<[role |-> "user", content |-> "Hello"]>>)}

StoreCriteria == {Some(<<CRITERIA.Welcome>>)}

StoreJudges == {Some([kind |-> "adapter"])}

StoreAnswers ==
    {[object |-> [criteria |-> <<[id |-> "welcome",
                                  description |-> "The response is welcoming to the user",
                                  passed |-> p]>>],
      usage |-> Some([totalTokens |-> 7])] : p \in BOOLEAN}

\* the conversations given to the tool-call matchers while the store is observed
StoreReceived ==
    {<<[role |-> "assistant",
        content |-> ArrayContent(<<ToolCallPart("search", ObjA1)>>)],
       [role |-> "tool",
        content |-> ArrayContent(<<ToolResultPart("search")>>)]>>,
     <<[role |-> "user", content |-> StringContent]>>}

NextStore ==
    \/ \E c \in CallIds, rc \in StoreConversations, cr \in StoreCriteria, j \in StoreJudges :
          Invoke(c, rc, cr, j)
    \/ \E c \in CallIds, a \in StoreAnswers : JudgeResolves(c, a)
    \/ \E c \in CallIds, e \in JudgeErrors : JudgeRejects(c, e)
    \/ SetupModule
    \/ \E kind \in ReporterKinds : ReporterConstructed(kind)
    \/ \E kind \in ReporterKinds : OnRunComplete(kind)
    \/ \E received \in StoreReceived : HaveToolCallResult(received, "search")
    \/ \E received \in StoreReceived, expectedArgs \in {Undefined, ObjA2} :
          HaveToolCall(received, "search", expectedArgs)

SpecStore == Init /\ [][NextStore]_vars

\* invocations inside one test while the clock runs
NextClock ==
    \/ \E c \in CallIds, rc \in StoreConversations, cr \in StoreCriteria, j \in StoreJudges :
          Invoke(c, rc, cr, j)
    \/ \E c \in CallIds, a \in StoreAnswers : JudgeResolves(c, a)
    \/ \E c \in CallIds, e \in JudgeErrors : JudgeRejects(c, e)
    \/ Tick

SpecClock == Init /\ [][NextClock]_vars

(***************************************************************************)
(* toPassAllCriteria with the await on the judge call taken apart: the     *)
(* promise of the judge call settles in one step, and the continuation of  *)
(* `await evaluateAiResponse(...)` runs in a later one.  Nothing else can  *)
(* wake the matcher: there is no timer, no race and no abort signal        *)
(* between the call and the push.                                          *)
(***************************************************************************)
\* the promise of the judge call fulfilled with an answer
fulfilled(answer) == [kind |-> "resolved", answer |-> Some(answer), error |-> None]

\* the promise of the judge call rejected with an error
rejected(error) == [kind |-> "rejected", answer |-> None, error |-> Some(error)]

Settlements ==
    {fulfilled(a) : a \in StoreAnswers} \cup {rejected(e) : e \in JudgeErrors}

\* the judge call of invocation c settles; the matcher is still suspended
JudgeSettles(c, settlement) ==
    /\ calls[c].pc = "awaiting"
    /\ ~calls[c].settled.defined
    /\ calls' = [calls EXCEPT ![c] = [@ EXCEPT !.settled = Some(settlement)]]
    /\ UNCHANGED <<evaluationRecords, conf, plan, order, tool, match, run, builder, reporter, now>>

\* mutant of Resume: a timer rejects the matcher while the judge is pending
Resume_timeout(c) ==
    /\ calls[c].pc = "awaiting"
    /\ IF ~calls[c].settled.defined
       THEN JudgeRejects(c, "timeout")
       ELSE IF calls[c].settled.value.kind = "resolved"
            THEN JudgeResolves(c, calls[c].settled.value.answer.value)
            ELSE JudgeRejects(c, calls[c].settled.value.error.value)

\* the continuation of the await runs: the rest of the matcher after a
\* fulfilled call, the propagation of the error after a rejected one
Resume(c) ==
    /\ calls[c].pc = "awaiting"
    /\ calls[c].settled.defined
    /\ IF calls[c].settled.value.kind = "resolved"
       THEN JudgeResolves(c, calls[c].settled.value.answer.value)
       ELSE JudgeRejects(c, calls[c].settled.value.error.value)

NextSettle ==
    \/ \E c \in CallIds, rc \in StoreConversations, cr \in StoreCriteria, j \in StoreJudges :
          Invoke(c, rc, cr, j)
    \/ \E c \in CallIds, settlement \in Settlements : JudgeSettles(c, settlement)
    \/ \E c \in CallIds : Resume(c)
    \/ Tick

SpecSettle == Init /\ [][NextSettle]_vars

\* the event loop runs the continuation of a settled promise: a matcher whose
\* judge call has settled is not postponed forever.  Nothing is assumed of
\* the judge, which may never settle.
SpecSettleLive ==
    /\ Init
    /\ [][NextSettle]_vars
    /\ \A c \in CallIds : WF_vars(Resume(c))

(***************************************************************************)
(* Helpers of the properties (independent of the operators above).         *)
(***************************************************************************)
\* invocations whose judge call resolved
Resolved == {c \in CallIds : calls[c].pc = "done" /\ calls[c].answer.defined}

\* what the judge of invocation c answered
JudgeResultOf(c) == calls[c].answer.value.object.criteria

EveryEntryPassed(R) == \A i \in 1..Len(R) : R[i].passed = TRUE

\* the message cut at each separator fragment
RECURSIVE SplitOn(_, _)
SplitOn(message, sep) ==
    IF \A i \in 1..Len(message) : message[i] # sep THEN <<message>>
    ELSE LET k == CHOOSE i \in 1..Len(message) :
                      message[i] = sep /\ \A j \in 1..(i - 1) : message[j] # sep
         IN  <<SubSeq(message, 1, k - 1)>> \o SplitOn(SubSeq(message, k + 1, Len(message)), sep)

IsNotPassed(e) == e.passed = FALSE

ValidationMessages ==
    {<<"Expected a conversation (ModelMessage[]) to be provided.">>,
     <<"Expected evaluation criteria (EvaluationCriterionDef[]) to be provided.">>,
     <<"Expected a judge adapter to be provided.">>}

\* the inputs of invocation c pass the checks the claims name
InputsInvalid(c) ==
    \/ ~calls[c].receivedConversation.defined
    \/ ~calls[c].criteria.defined
    \/ Len(calls[c].criteria.value) = 0
    \/ ~calls[c].judge.defined

(***************************************************************************)
(* C1: once the judge has answered with a result list R, the matcher       *)
(* passes exactly when every entry of R has passed = true, and the record  *)
(* it stored carries that same boolean in `passed`.                        *)
(***************************************************************************)
C1_Aggregation ==
    \A c \in Resolved :
        LET every == EveryEntryPassed(JudgeResultOf(c))
        IN  /\ calls[c].outcome.value.kind = "returned"
            /\ calls[c].outcome.value.pass = every
            /\ calls[c].recordAt.defined
            /\ calls[c].recordAt.value \in 1..Len(evaluationRecords)
            /\ evaluationRecords[calls[c].recordAt.value].passed = every
            /\ evaluationRecords[calls[c].recordAt.value].results = JudgeResultOf(c)

\* one invocation failed on a list with a passed and a failed entry, the
\* other passed on a non-empty list
C1_Witness ==
    /\ \E c \in Resolved :
          /\ Len(JudgeResultOf(c)) = 2
          /\ JudgeResultOf(c)[1].passed /\ ~JudgeResultOf(c)[2].passed
          /\ calls[c].outcome.value.pass = FALSE
    /\ \E c \in Resolved :
          /\ Len(JudgeResultOf(c)) = 2
          /\ EveryEntryPassed(JudgeResultOf(c))
          /\ calls[c].outcome.value.pass = TRUE

(***************************************************************************)
(* C2: when the matcher fails on the judge's verdict, the lines of its     *)
(* message after the heading are exactly the entries with passed = false,  *)
(* each as `<id>: <description>`, in the order of the judge's list.        *)
(***************************************************************************)
C2_FailureMessage ==
    \A c \in Resolved :
        calls[c].outcome.value.pass = FALSE =>
            LET lines == SplitOn(calls[c].outcome.value.message, "\n  ")
                notPassed == SelectSeq(JudgeResultOf(c), IsNotPassed)
            IN  /\ Len(lines) = 1 + Len(notPassed)
                /\ lines[1] = <<"expected all criteria to pass, but these failed:">>
                /\ \A i \in 1..Len(notPassed) :
                      lines[i + 1] = <<notPassed[i].id, ": ", notPassed[i].description>>

\* a failure on two failed entries in the order relevance, welcome, and a
\* failure on a list whose first entry passed
C2_Witness ==
    /\ \E c \in Resolved :
          /\ Len(JudgeResultOf(c)) = 2
          /\ JudgeResultOf(c)[1].id = "relevance" /\ ~JudgeResultOf(c)[1].passed
          /\ JudgeResultOf(c)[2].id = "welcome" /\ ~JudgeResultOf(c)[2].passed
          /\ calls[c].outcome.value.pass = FALSE
    /\ \E c \in Resolved :
          /\ Len(JudgeResultOf(c)) = 2
          /\ JudgeResultOf(c)[1].passed /\ ~JudgeResultOf(c)[2].passed
          /\ calls[c].outcome.value.pass = FALSE

(***************************************************************************)
(* C3: a step in which the judge call of an invocation resolves appends    *)
(* exactly one record to the store, whether the verdict is pass or fail:   *)
(* the old store is kept and the length grows by 1.                        *)
(***************************************************************************)
C3_OneRecordPerInvocation ==
    [][\A c \in CallIds :
          (calls[c].pc = "awaiting" /\ calls'[c].answer.defined) =>
              /\ Len(evaluationRecords') = Len(evaluationRecords) + 1
              /\ SubSeq(evaluationRecords', 1, Len(evaluationRecords)) = evaluationRecords]_vars

\* both invocations resolved, one passing and one failing, two records
C3_Witness ==
    /\ Resolved = CallIds
    /\ \E c \in CallIds : calls[c].outcome.value.pass = TRUE
    /\ \E c \in CallIds : calls[c].outcome.value.pass = FALSE
    /\ Len(evaluationRecords) = 2

(***************************************************************************)
(* C4: when the judge's answer carries no usage the engine returns, and    *)
(* the matcher records, usage.totalTokens = 0; when it carries             *)
(* totalTokens = n they return and record n.                               *)
(***************************************************************************)
C4_UsageDefault ==
    \A c \in Resolved :
        LET answered == calls[c].answer.value.usage
            expected == IF answered.defined THEN answered.value.totalTokens ELSE 0
            returnedUsage == calls[c].evaluationData.value.usage
            recordedUsage == evaluationRecords[calls[c].recordAt.value].usage
        IN  /\ returnedUsage.defined
            /\ returnedUsage.value.totalTokens = expected
            /\ recordedUsage.defined
            /\ recordedUsage.value.totalTokens = expected

(***************************************************************************)
(* C5: an invocation whose conversation is missing, whose criteria are     *)
(* missing or empty, or whose judge is missing, returns pass = false with  *)
(* one of the descriptive messages; it does not reject.                    *)
(***************************************************************************)
C5_InputValidation ==
    \A c \in CallIds :
        (calls[c].pc # "idle" /\ InputsInvalid(c)) =>
            /\ calls[c].pc = "done"
            /\ calls[c].outcome.defined
            /\ calls[c].outcome.value.kind = "returned"
            /\ calls[c].outcome.value.pass = FALSE
            /\ calls[c].outcome.value.message \in ValidationMessages

\* one invocation had empty criteria, the other only lacked the judge
C5_Witness ==
    /\ \E c \in CallIds :
          /\ calls[c].pc = "done"
          /\ calls[c].receivedConversation.defined
          /\ calls[c].criteria.defined /\ Len(calls[c].criteria.value) = 0
          /\ calls[c].outcome.value.pass = FALSE
    /\ \E c \in CallIds :
          /\ calls[c].pc = "done"
          /\ calls[c].receivedConversation.defined
          /\ calls[c].criteria.defined /\ Len(calls[c].criteria.value) > 0
          /\ ~calls[c].judge.defined
          /\ calls[c].outcome.value.pass = FALSE

(***************************************************************************)
(* C6 as stated: an invocation given a conversation with zero messages     *)
(* (criteria and judge valid) returns the validation failure and never     *)
(* invokes the judge.                                                      *)
(***************************************************************************)
C6_Original ==
    \A c \in CallIds :
        (/\ calls[c].pc # "idle"
         /\ calls[c].receivedConversation.defined
         /\ Len(calls[c].receivedConversation.value) = 0
         /\ ~InputsInvalid(c)) =>
            /\ calls[c].judgeCalls = 0
            /\ calls[c].pc = "done"
            /\ calls[c].outcome.value.kind = "returned"
            /\ calls[c].outcome.value.pass = FALSE
            /\ calls[c].outcome.value.message \in ValidationMessages

(***************************************************************************)
(* C6 amended: the conversation must be provided, not non-empty.  A        *)
(* missing conversation returns the validation failure without invoking    *)
(* the judge; a conversation with zero messages (criteria and judge valid) *)
(* passes validation, the judge is invoked, and the verdict is the         *)
(* judge's.                                                                *)
(***************************************************************************)
C6_ConversationProvided ==
    \A c \in CallIds :
        calls[c].pc # "idle" =>
            /\ ~calls[c].receivedConversation.defined =>
                  /\ calls[c].judgeCalls = 0
                  /\ calls[c].pc = "done"
                  /\ calls[c].outcome.value.kind = "returned"
                  /\ calls[c].outcome.value.pass = FALSE
                  /\ calls[c].outcome.value.message =
                        <<"Expected a conversation (ModelMessage[]) to be provided.">>
            /\ (/\ calls[c].receivedConversation.defined
                /\ Len(calls[c].receivedConversation.value) = 0
                /\ ~InputsInvalid(c)) =>
                  /\ calls[c].judgeCalls = 1
                  /\ calls[c].pc = "done" /\ calls[c].answer.defined =>
                        calls[c].outcome.value.pass = EveryEntryPassed(JudgeResultOf(c))

\* an empty conversation went to the judge and passed; a missing one was
\* turned down
C6_Witness ==
    /\ \E c \in Resolved :
          /\ Len(calls[c].receivedConversation.value) = 0
          /\ calls[c].judgeCalls = 1
          /\ calls[c].outcome.value.pass = TRUE
    /\ \E c \in CallIds :
          /\ calls[c].pc = "done"
          /\ ~calls[c].receivedConversation.defined
          /\ calls[c].criteria.defined /\ Len(calls[c].criteria.value) > 0
          /\ calls[c].judge.defined

(***************************************************************************)
(* C7: an invocation that passed validation has invoked the judge exactly  *)
(* once, while the call is in flight and after it resolved or rejected;    *)
(* one that failed validation has not invoked it.                          *)
(***************************************************************************)
C7_JudgeInvokedOnce ==
    \A c \in CallIds :
        /\ (calls[c].pc # "idle" /\ ~InputsInvalid(c)) => calls[c].judgeCalls = 1
        /\ (calls[c].pc = "idle" \/ InputsInvalid(c)) => calls[c].judgeCalls = 0

\* one judge call rejected, the other resolved; each judge was called once
C7_Witness ==
    /\ \E c \in CallIds :
          calls[c].pc = "done" /\ calls[c].judgeError.defined /\ calls[c].judgeCalls = 1
    /\ \E c \in Resolved : calls[c].judgeCalls = 1

(***************************************************************************)
(* C8: a step in which the judge call of an invocation rejects makes the   *)
(* invocation reject with that same error and leaves the store unchanged.  *)
(***************************************************************************)
C8_JudgeFailurePropagates ==
    [][\A c \in CallIds :
          (calls[c].pc = "awaiting" /\ calls'[c].judgeError.defined) =>
              /\ calls'[c].pc = "done"
              /\ calls'[c].outcome =
                    Some([kind |-> "rejected", error |-> calls'[c].judgeError.value])
              /\ ~calls'[c].recordAt.defined
              /\ evaluationRecords' = evaluationRecords]_vars

\* a rejected invocation next to a recorded one: the store holds one record
C8_Witness ==
    /\ \E c \in CallIds :
          /\ calls[c].pc = "done"
          /\ calls[c].judgeError = Some("transport failure")
          /\ calls[c].outcome.value.kind = "rejected"
    /\ Cardinality(Resolved) = 1
    /\ Len(evaluationRecords) = 1

(***************************************************************************)
(* C9: with n >= 1 iterations of which k completed without throwing, the   *)
(* confidence matcher passes exactly when k/n >= minSuccessRate            *)
(* (inclusive); absent options mean n = 10 and minSuccessRate = 0.8, so    *)
(* that 8 of 10 passes and 7 of 10 fails.                                  *)
(***************************************************************************)
C9_ConfidenceThreshold ==
    conf.pc = "done" =>
        LET n == IF conf.options.iterations.defined
                 THEN conf.options.iterations.value ELSE 10
            r == IF conf.options.minSuccessRate.defined
                 THEN conf.options.minSuccessRate.value ELSE <<8, 10>>
            k == Cardinality({i \in 1..n : conf.settled[i] = "true"})
        IN  /\ Len(conf.settled) = n
            /\ conf.outcome.value.kind = "returned"
            /\ conf.outcome.value.pass = (k * r[2] >= r[1] * n)
            /\ (n = 10 /\ r = <<8, 10>> /\ k = 8) => conf.outcome.value.pass = TRUE
            /\ (n = 10 /\ r = <<8, 10>> /\ k = 7) => conf.outcome.value.pass = FALSE

\* default options, exactly 8 of the 10 iterations completed: pass
C9_Witness ==
    /\ conf.pc = "done"
    /\ ~conf.options.iterations.defined
    /\ ~conf.options.minSuccessRate.defined
    /\ Cardinality({i \in DOMAIN conf.settled : conf.settled[i] = "true"}) = 8
    /\ Len(conf.settled) = 10
    /\ conf.outcome.value.pass = TRUE

(***************************************************************************)
(* C10: the test function is invoked exactly `iterations` times; a throw   *)
(* is one failure, leaves the matcher waiting for the other iterations,    *)
(* and never leaves the matcher as a rejection: the matcher returns only   *)
(* when no iteration is pending, with a pass/fail result.                  *)
(***************************************************************************)
C10_IterationFailuresRecovered ==
    LET n == IF conf.options.iterations.defined
             THEN conf.options.iterations.value ELSE 10
        failures == {i \in DOMAIN conf.settled : conf.settled[i] = "false"}
        pending == {i \in DOMAIN conf.settled : conf.settled[i] = "pending"}
    IN  /\ conf.pc # "idle" =>
              /\ conf.testFnCalls = n
              /\ DOMAIN conf.settled = 1..n
              /\ \A i \in 1..n : conf.settled[i] \in {"pending", "true", "false"}
              /\ Cardinality(conf.log) = Cardinality(failures)
        /\ (conf.pc = "running" /\ pending # {}) => ~conf.outcome.defined
        /\ conf.pc = "done" =>
              /\ pending = {}
              /\ Cardinality({i \in 1..n : conf.settled[i] = "true"}) = n - Cardinality(failures)
              /\ conf.outcome.value.kind = "returned"
              /\ conf.outcome.value.pass \in BOOLEAN

\* three iterations, the first threw, the later two completed afterwards, and
\* the matcher returned a failed assertion
C10_Witness ==
    /\ conf.pc = "done"
    /\ conf.iterations = 3
    /\ conf.testFnCalls = 3
    /\ conf.settled = <<"false", "true", "true">>
    /\ conf.options.minSuccessRate = Some(<<1, 1>>)
    /\ conf.outcome.value.kind = "returned"
    /\ conf.outcome.value.pass = FALSE

(***************************************************************************)
(* C11: the invocation puts every iteration in flight at once; the matcher *)
(* never has its verdict while an iteration is pending; and once every     *)
(* iteration has settled the matcher eventually returns.                   *)
(***************************************************************************)
C11_AggregatesAfterAllSettled ==
    /\ [][(conf.pc = "idle" /\ conf'.pc # "idle") =>
             /\ conf'.pc = "running"
             /\ conf'.testFnCalls = Len(conf'.settled)
             /\ Len(conf'.settled) = conf'.iterations
             /\ \A i \in DOMAIN conf'.settled : conf'.settled[i] = "pending"]_vars
    /\ []((\E i \in DOMAIN conf.settled : conf.settled[i] = "pending") =>
             (conf.pc = "running" /\ ~conf.outcome.defined))
    /\ ((conf.pc = "running" /\ \A i \in DOMAIN conf.settled : conf.settled[i] # "pending")
           ~> (conf.pc = "done" /\ conf.outcome.defined))

\* the matcher returned after all ten default iterations had completed
C11_Witness ==
    /\ conf.pc = "done"
    /\ conf.outcome.defined
    /\ Len(conf.settled) = 10
    /\ \A i \in DOMAIN conf.settled : conf.settled[i] = "true"

(***************************************************************************)
(* C12: when the outcome of each iteration is fixed beforehand, every      *)
(* order in which the iterations settle ends with the same success count   *)
(* and the same verdict: those of the plan.                                *)
(***************************************************************************)
C12_OrderInsensitive ==
    (conf.pc = "done" /\ plan # <<>>) =>
        LET n == Len(plan)
            k == Cardinality({i \in 1..n : plan[i]})
            r == IF conf.options.minSuccessRate.defined
                 THEN conf.options.minSuccessRate.value ELSE <<8, 10>>
        IN  /\ Len(order) = n
            /\ {order[j] : j \in 1..n} = 1..n
            /\ \A i \in 1..n : conf.settled[i] = (IF plan[i] THEN "true" ELSE "false")
            /\ conf.outcome.value.kind = "returned"
            /\ conf.outcome.value.pass = (k * r[2] >= r[1] * n)
            /\ conf.outcome.value.pass = FALSE =>
                  SubSeq(conf.outcome.value.message, 8, 10)
                      = <<ToString(k), "/", ToString(n)>>

\* the last iteration settled first and the only throwing one in between
C12_Witness ==
    /\ conf.pc = "done"
    /\ plan = <<TRUE, FALSE, TRUE>>
    /\ order = <<3, 2, 1>>
    /\ conf.options.minSuccessRate = Some(<<1, 2>>)
    /\ conf.outcome.value.pass = TRUE

(***************************************************************************)
(* C16: deepPartialMatch is a one-directional subset check.  It holds      *)
(* whenever every key of expected is a key of actual with an equal         *)
(* primitive, an array of which the expected array is a prefix, or an      *)
(* object that recursively covers the expected one; keys of actual that    *)
(* expected lacks never matter; and match({a:1,b:2},{a:1}),                *)
(* match({arr:[1,2,3]},{arr:[1,2]}) are true while match({a:1},{a:1,b:2}), *)
(* match({arr:[1,2]},{arr:[1,2,3]}) are false.                             *)
(***************************************************************************)
RECURSIVE Covers(_, _)
Covers(av, ev) ==
    CASE ev.t = "object" ->
            /\ av.t = "object"
            /\ \A k \in DOMAIN ev.fields :
                  k \in DOMAIN av.fields /\ Covers(av.fields[k], ev.fields[k])
      [] ev.t = "array" ->
            /\ av.t = "array"
            /\ Len(ev.items) <= Len(av.items)
            /\ SubSeq(av.items, 1, Len(ev.items)) = ev.items
      [] OTHER -> av = ev

\* actual without the keys that expected does not have
Restrict(actual, expected) ==
    Obj([k \in DOMAIN actual.fields \cap DOMAIN expected.fields |-> actual.fields[k]])

ObjA1B2 == Obj([k \in {"a", "b"} |-> IF k = "a" THEN Num(1) ELSE Num(2)])

ObjArr12 == Obj([k \in {"arr"} |-> Arr(<<Num(1), Num(2)>>)])

ObjArr123 == Obj([k \in {"arr"} |-> Arr(<<Num(1), Num(2), Num(3)>>)])

C17_AbsentKeyFails ==
    (match.pc = "done" /\ match.actual.t = "object" /\ match.expected.t = "object") =>
        ((\E k \in DOMAIN match.expected.fields : k \notin DOMAIN match.actual.fields)
            => match.result = FALSE)

(***************************************************************************)
(* Helpers of the tool-call properties.                                    *)
(***************************************************************************)
\* the positions <<message, entry>> of the tool-call entries named
\* tool.toolName in assistant messages of the received conversation
NameEntries ==
    {p \in UNION {{<<i, j>> : j \in DOMAIN tool.received[i].content.parts} :
                     i \in DOMAIN tool.received} :
        /\ tool.received[p[1]].role = "assistant"
        /\ tool.received[p[1]].content.isArray
        /\ tool.received[p[1]].content.parts[p[2]].type = "tool-call"
        /\ tool.received[p[1]].content.parts[p[2]].toolName = Some(tool.toolName)}

InputAt(p) == tool.received[p[1]].content.parts[p[2]].input

\* conversation order, then content order
Before(p, q) == p[1] < q[1] \/ (p[1] = q[1] /\ p[2] <= q[2])

FirstNameEntry == CHOOSE p \in NameEntries : \A q \in NameEntries : Before(p, q)

LastNameEntry == CHOOSE p \in NameEntries : \A q \in NameEntries : Before(q, p)

\* no expectedArgs were given, or the entry's input partial-matches them
Accepted(p) == tool.expectedArgs = Undefined \/ Covers(InputAt(p), tool.expectedArgs)

ToolCallDone == tool.pc = "done" /\ tool.matcher = "toHaveToolCall"

(***************************************************************************)
(* C13: toHaveToolCallResult passes iff some message of role tool has an   *)
(* array content with an entry whose toolName is the requested name;       *)
(* entries of messages of other roles and tool messages with string        *)
(* content never make it pass; the message names the tool searched.        *)
(***************************************************************************)
C13_ToolResultFound ==
    (tool.pc = "done" /\ tool.matcher = "toHaveToolCallResult") =>
        /\ tool.result.pass =
              (\E i \in DOMAIN tool.received :
                  /\ tool.received[i].role = "tool"
                  /\ tool.received[i].content.isArray
                  /\ \E j \in DOMAIN tool.received[i].content.parts :
                        tool.received[i].content.parts[j].toolName = Some(tool.toolName))
        /\ (\A i \in DOMAIN tool.received :
               tool.received[i].role # "tool" \/ ~tool.received[i].content.isArray)
              => tool.result.pass = FALSE
        /\ tool.result.message.toolName = tool.toolName
        /\ tool.result.message.outcome =
              (IF tool.result.pass THEN "but it did" ELSE "but none was found")

\* an assistant message carries the call, a tool message has string content:
\* the matcher did not pass
C13_Witness ==
    /\ tool.pc = "done"
    /\ tool.matcher = "toHaveToolCallResult"
    /\ tool.received = <<[role |-> "assistant",
                          content |-> ArrayContent(<<ToolCallPart("search", ObjA1),
                                                     ToolResultPart("search")>>)],
                         [role |-> "tool", content |-> StringContent]>>
    /\ tool.result.pass = FALSE

(***************************************************************************)
(* C14: toHaveToolCall yields exactly one of three outcomes: none was      *)
(* found (pass false) iff no assistant message has a tool-call entry with  *)
(* the requested name; args did not match, with the actual args of such an *)
(* entry reported (pass false), iff such entries exist and the argument    *)
(* check fails; pass iff such an entry exists and no expectedArgs were     *)
(* given or its arguments partial-match.  Tool-call entries of other roles *)
(* are ignored.                                                            *)
(***************************************************************************)
C14_ThreeOutcomes ==
    ToolCallDone =>
        LET r == tool.result
        IN  /\ r.message.outcome \in
                  {"but none was found", "but args did not match", "but it did"}
            /\ (r.message.outcome = "but none was found") = (NameEntries = {})
            /\ (r.message.outcome = "but args did not match") =
                  (NameEntries # {} /\ \A p \in NameEntries : ~Accepted(p))
            /\ (r.message.outcome = "but it did") = (\E p \in NameEntries : Accepted(p))
            /\ r.pass = (r.message.outcome = "but it did")
            /\ r.message.outcome = "but args did not match" =>
                  /\ r.message.expectedArgs = tool.expectedArgs
                  /\ \E p \in NameEntries : r.message.actualArgs = InputAt(p)
            /\ r.message.toolName = tool.toolName
            /\ r = toHaveToolCall(SelectSeq(tool.received,
                                            LAMBDA msg : msg.role = "assistant"),
                                  tool.toolName, tool.expectedArgs)

\* a tool message carries a call that would match, the assistant's call does
\* not: args did not match, and the assistant's args are reported
C14_Witness ==
    /\ ToolCallDone
    /\ tool.received = <<[role |-> "tool",
                          content |-> ArrayContent(<<ToolCallPart("search", ObjA2)>>)],
                         [role |-> "assistant",
                          content |-> ArrayContent(<<ToolCallPart("search", ObjA1)>>)]>>
    /\ tool.expectedArgs = ObjA2
    /\ tool.result.pass = FALSE
    /\ tool.result.message.outcome = "but args did not match"
    /\ tool.result.message.actualArgs = ObjA1

(***************************************************************************)
(* C15 as stated: only the first tool-call entry whose name matches is     *)
(* checked against expectedArgs, so the verdict is the verdict on that     *)
(* entry, and two entries of which expectedArgs matches only the second    *)
(* give args did not match.                                                *)
(***************************************************************************)
C15_Original ==
    (ToolCallDone /\ NameEntries # {}) =>
        /\ tool.result.pass = Accepted(FirstNameEntry)
        /\ ~Accepted(FirstNameEntry) =>
              tool.result.message.outcome = "but args did not match"

(***************************************************************************)
(* C15 amended: the scan goes on past a name match whose arguments are not *)
(* accepted and stops at the first entry that is accepted, so the matcher  *)
(* passes iff any entry with the name is accepted (in particular when      *)
(* expectedArgs matches only the second of two entries); when none is, it  *)
(* reports args did not match with the args of the last such entry.        *)
(***************************************************************************)
C15_AnyMatch ==
    (ToolCallDone /\ NameEntries # {}) =>
        /\ tool.result.pass = (\E p \in NameEntries : Accepted(p))
        /\ (~Accepted(FirstNameEntry) /\ Accepted(LastNameEntry)) =>
              tool.result.pass = TRUE
        /\ ~tool.result.pass =>
              /\ tool.result.message.outcome = "but args did not match"
              /\ tool.result.message.actualArgs = InputAt(LastNameEntry)

\* one assistant message, two calls to search, expectedArgs matching only the
\* second: the matcher passed
C15_Witness ==
    /\ ToolCallDone
    /\ tool.received = <<[role |-> "assistant",
                          content |-> ArrayContent(<<ToolCallPart("search", ObjA1),
                                                     ToolCallPart("search", ObjA2)>>)]>>
    /\ tool.expectedArgs = ObjA2
    /\ tool.result.pass = TRUE

(***************************************************************************)
(* Helpers of the multi-step properties.                                   *)
(***************************************************************************)
RunReturned ==
    run.pc = "done" /\ run.outcome.defined /\ run.outcome.value.kind = "returned"

\* h is the first k user turns, as messages, and nothing else
IsUserTurns(h, k) ==
    /\ Len(h) = k
    /\ k <= Len(run.userMessages)
    /\ \A j \in DOMAIN h : h[j] = [role |-> "user", content |-> run.userMessages[j]]

\* the first k user turns, each followed by what its generation returned
RECURSIVE Transcript(_)
Transcript(k) ==
    IF k = 0 THEN <<>>
    ELSE Transcript(k - 1)
            \o <<[role |-> "user", content |-> run.userMessages[k]]>>
            \o run.generated[k]

\* the positions of the events of one kind and step
EventsOf(kind, step) ==
    {e \in DOMAIN run.events : run.events[e] = [kind |-> kind, step |-> step]}

(***************************************************************************)
(* C18: with n user turns and an onStep callback, onStep is invoked        *)
(* exactly n times, the k-th call has stepIndex k - 1, and each call's     *)
(* transcript is at least as long as the previous call's.                  *)
(***************************************************************************)
C18_OnStepCalls ==
    run.hasOnStep =>
        /\ \A k \in DOMAIN run.onStepCalls :
              /\ run.onStepCalls[k].stepIndex = k - 1
              /\ k > 1 => Len(run.onStepCalls[k].conversation)
                              >= Len(run.onStepCalls[k - 1].conversation)
        /\ Len(run.onStepCalls) <= Len(run.userMessages)
        /\ RunReturned => Len(run.onStepCalls) = Len(run.userMessages)

C18_Witness ==
    /\ RunReturned
    /\ run.hasOnStep
    /\ Len(run.userMessages) = 3
    /\ Len(run.onStepCalls) = 3
    /\ run.onStepCalls[3].stepIndex = 2

(***************************************************************************)
(* C19: the runner is strictly sequential: one generation call per user    *)
(* turn, never two generation calls in flight, and the prompt construction *)
(* and generation call of step i + 1 come after step i's generation has    *)
(* completed and, when onStep is supplied, after step i's onStep.          *)
(***************************************************************************)
C19_StrictlySequential ==
    /\ run.inFlight <= 1
    /\ run.generateCalls = Len(run.prompts)
    /\ RunReturned => run.generateCalls = Len(run.userMessages)
    /\ \A step \in 0..Len(run.userMessages) :
          /\ Cardinality(EventsOf("generateText", step)) <= 1
          /\ Cardinality(EventsOf("createAgentPrompt", step)) <= 1
          /\ \A e \in EventsOf("createAgentPrompt", step + 1)
                       \cup EventsOf("generateText", step + 1) :
                /\ \E d \in EventsOf("generated", step) : d < e
                /\ run.hasOnStep => \E d \in EventsOf("onStep", step) : d < e
          /\ \A e \in EventsOf("onStep", step) :
                \E d \in EventsOf("generated", step) : d < e

C19_Witness ==
    /\ RunReturned
    /\ run.hasOnStep
    /\ Len(run.userMessages) = 3
    /\ run.generateCalls = 3
    /\ Len(run.events) = 12

(***************************************************************************)
(* C20: two histories: at step i createAgentPrompt receives exactly the    *)
(* first i + 1 user turns and no generated turn; generated turns are       *)
(* appended to the model-facing transcript only; the returned transcript   *)
(* holds every user turn in input order, each immediately followed by the  *)
(* messages generated for that step.                                       *)
(***************************************************************************)
C20_TwoHistories ==
    /\ \A k \in DOMAIN run.prompts : IsUserTurns(run.prompts[k], k)
    /\ IsUserTurns(run.history, Len(run.prompts))
    /\ run.pc = "generating" =>
          run.modelHistory = Transcript(Len(run.generated))
                                \o <<[role |-> "user",
                                      content |-> run.userMessages[run.i + 1]]>>
    /\ RunReturned =>
          /\ Len(run.generated) = Len(run.userMessages)
          /\ run.outcome.value.value = Transcript(Len(run.userMessages))

C20_Witness ==
    /\ RunReturned
    /\ run.userMessages = <<"hello", "where is my order">>
    /\ run.generated = <<<<[role |-> "assistant", content |-> "reply"]>>,
                         <<[role |-> "assistant", content |-> "tool-call"],
                           [role |-> "tool", content |-> "tool-result"]>>>>
    /\ Len(run.outcome.value.value) = 5
    /\ Len(run.prompts[2]) = 2

(***************************************************************************)
(* Helpers of the builder properties.                                      *)
(***************************************************************************)
\* the entry a caller expects from add(arg), for the arguments the types allow
Expected(arg) ==
    CASE arg.kind = "object" -> arg.criterion
      [] arg.kind = "string" /\ arg.key = "Welcome" -> CRITERIA.Welcome
      [] arg.kind = "string" /\ arg.key = "Relevance" -> CRITERIA.Relevance
      [] OTHER -> [t |-> "undefined"]

\* the array a build() call returned, as it is now
Built(k) == builder.arrays[builder.builds[k].array]

(***************************************************************************)
(* C21: add() returns the same builder and appends in call order; build()  *)
(* returns a copy, so a built set is never changed by later add() calls;   *)
(* build() does not reset the builder, so each build() holds every         *)
(* criterion added before it, in insertion order.                          *)
(***************************************************************************)
C21_BuilderCopies ==
    /\ [][\A arg \in AddInputs : Add(arg) =>
             /\ builder'.returned = Some([kind |-> "returned", value |-> "this", array |-> 0])
             /\ Len(builder'.arrays[1]) = Len(builder.arrays[1]) + 1
             /\ SubSeq(builder'.arrays[1], 1, Len(builder.arrays[1])) = builder.arrays[1]
             /\ (arg.kind = "object" \/ arg.key \in {"Welcome", "Relevance"})
                   => builder'.arrays[1][Len(builder'.arrays[1])] = Expected(arg)
             /\ \A k \in DOMAIN builder.builds : builder'.arrays[builder.builds[k].array]
                                                  = builder.arrays[builder.builds[k].array]]_vars
    /\ [](\A k \in DOMAIN builder.builds :
             /\ builder.builds[k].array # 1
             /\ Built(k) = builder.builds[k].contents
             /\ Len(Built(k)) = builder.builds[k].adds
             /\ \A i \in DOMAIN Built(k) :
                   builder.adds[i].kind = "object" \/ builder.adds[i].key \in {"Welcome", "Relevance"}
                      => Built(k)[i] = Expected(builder.adds[i]))

\* a set built after one add, then two more adds, then a second build
C21_Witness ==
    /\ Len(builder.builds) = 2
    /\ builder.builds[1].adds = 1
    /\ builder.builds[2].adds = 3
    /\ Len(Built(1)) = 1
    /\ Len(Built(2)) = 3
    /\ Built(2)[1] = Built(1)[1]

(***************************************************************************)
(* C22 as stated: the built list is deduplicated: no criterion appears in  *)
(* a built set more than once.                                             *)
(***************************************************************************)
C22_Original ==
    \A k \in DOMAIN builder.builds :
        \A i, j \in DOMAIN Built(k) : Built(k)[i] = Built(k)[j] => i = j

(***************************************************************************)
(* C22 amended: the builder does not deduplicate: a built set has one      *)
(* entry per add() call made before it, so a criterion added twice appears *)
(* twice, at the positions of its two add() calls.                         *)
(***************************************************************************)
C22_KeepsDuplicates ==
    \A k \in DOMAIN builder.builds :
        /\ Len(Built(k)) = builder.builds[k].adds
        /\ \A i, j \in DOMAIN Built(k) :
              builder.adds[i] = builder.adds[j] => Built(k)[i] = Built(k)[j]

\* CRITERIA.Welcome added twice, then built
C22_Witness ==
    /\ Len(builder.builds) >= 1
    /\ builder.builds[1].adds = 2
    /\ builder.adds[1] = [kind |-> "string", key |-> "Welcome"]
    /\ builder.adds[2] = [kind |-> "string", key |-> "Welcome"]
    /\ Built(1) = <<CRITERIA.Welcome, CRITERIA.Welcome>>

(***************************************************************************)
(* C23: add() with a string that is not a key of the predefined table      *)
(* throws a ConfigurationError and leaves the list unchanged; no undefined *)
(* entry is ever in the builder's list or in a built set.                  *)
(***************************************************************************)
C23_UnknownKeyFails ==
    /\ \A a \in DOMAIN builder.arrays : \A i \in DOMAIN builder.arrays[a] :
          builder.arrays[a][i] # [t |-> "undefined"]
    /\ (builder.adds # <<>> /\ builder.adds[Len(builder.adds)].kind = "string"
           /\ builder.adds[Len(builder.adds)].key \notin {"Welcome", "Relevance"}
           /\ builder.builds = <<>>)
          => builder.returned =
                Some([kind |-> "thrown", value |-> "ConfigurationError", array |-> 0])

(***************************************************************************)
(* Helpers of the store properties.                                        *)
(***************************************************************************)
IsPrefix(s, t) == Len(s) <= Len(t) /\ SubSeq(t, 1, Len(s)) = s

\* the record invocation c appended
RecordOf(c) == evaluationRecords[calls[c].recordAt.value]

(***************************************************************************)
(* C24: the record store is append-only: over toPassAllCriteria            *)
(* invocations, reloads of the setup module, reporter constructions and    *)
(* onRunComplete calls, the store of an earlier time is a prefix of the    *)
(* store of a later time, and what a report read earlier is a prefix of    *)
(* what the store holds later.                                             *)
(***************************************************************************)
C24_AppendOnly ==
    /\ [][IsPrefix(evaluationRecords, evaluationRecords')]_vars
    /\ [](\A k \in DOMAIN reporter.reports :
             /\ Len(reporter.reports[k].records) <= Len(evaluationRecords)
             /\ \A i \in DOMAIN reporter.reports[k].records :
                   /\ reporter.reports[k].records[i].id = evaluationRecords[i].id
                   /\ reporter.reports[k].records[i].passed = evaluationRecords[i].passed)

\* a report read one record; since then both reporters exist and the store
\* has two records
C24_Witness ==
    /\ Len(evaluationRecords) = 2
    /\ reporter.constructed = {"EvaluationReporter", "TerminalReporter"}
    /\ \E k \in DOMAIN reporter.reports :
          reporter.reports[k].generated /\ Len(reporter.reports[k].records) = 1

(***************************************************************************)
(* C25: with several invocations in flight on the shared store, the store  *)
(* holds exactly one record per invocation whose judge call resolved, none *)
(* lost and none duplicated, and a record's position is the rank of its    *)
(* judge call's completion, whatever the order of the starts.              *)
(***************************************************************************)
C25_CompletionOrder ==
    /\ [][\A c \in CallIds :
             (calls[c].pc = "awaiting" /\ calls'[c].answer.defined) =>
                 /\ calls'[c].recordAt = [defined |-> TRUE, value |-> Len(evaluationRecords) + 1]
                 /\ \A d \in CallIds \ {c} : calls'[d].recordAt = calls[d].recordAt]_vars
    /\ [](/\ Len(evaluationRecords) = Cardinality({c \in CallIds : calls[c].answer.defined})
          /\ \A c \in CallIds :
                calls[c].recordAt.defined = calls[c].answer.defined
          /\ \A c \in CallIds : calls[c].answer.defined =>
                /\ calls[c].recordAt.value \in DOMAIN evaluationRecords
                /\ RecordOf(c).timestamp = calls[c].startTime
                /\ RecordOf(c).results = calls[c].answer.value.object.criteria
                /\ RecordOf(c).conversation = calls[c].receivedConversation.value
          /\ \A c, d \in CallIds :
                (calls[c].answer.defined /\ calls[d].answer.defined /\ c # d)
                    => calls[c].recordAt.value # calls[d].recordAt.value)

\* t1 started first and its judge call resolved last: its record is second
C25_Witness ==
    /\ calls["t1"].answer.defined
    /\ calls["t2"].answer.defined
    /\ calls["t1"].startTime < calls["t2"].startTime
    /\ calls["t2"].recordAt.value = 1
    /\ calls["t1"].recordAt.value = 2
    /\ evaluationRecords[1].timestamp > evaluationRecords[2].timestamp

(***************************************************************************)
(* C26: record ids are unique: no two records of the store have the same   *)
(* id, including records of invocations made inside the same test that     *)
(* read the same millisecond start time.                                   *)
(***************************************************************************)
C26_UniqueIds ==
    \A i, j \in DOMAIN evaluationRecords :
        evaluationRecords[i].id = evaluationRecords[j].id => i = j

(***************************************************************************)
(* C27: the evaluation result holds one result per criterion of the set,   *)
(* with the same id, so whenever the matcher passes, every criterion of    *)
(* the set has an entry with its id and passed = true in the record.       *)
(***************************************************************************)
C27_OneResultPerCriterion ==
    \A c \in Resolved :
        LET C == calls[c].criteria.value
            R == RecordOf(c).results
        IN  /\ Len(R) = Len(C)
            /\ \A i \in DOMAIN C : R[i].id = C[i].id
            /\ calls[c].outcome.value.pass =>
                  \A i \in DOMAIN C : \E k \in DOMAIN R : R[k].id = C[i].id /\ R[k].passed

(***************************************************************************)
(* C28: the tool-call matchers are independent of the engine: a step of    *)
(* toHaveToolCall or toHaveToolCallResult invokes no judge, leaves the     *)
(* record store and every criteria-pass invocation as they are, and leaves *)
(* the conversation it was given unchanged; toPassAllCriteria leaves its   *)
(* conversation and its criteria set unchanged, and its record holds them. *)
(***************************************************************************)
C28_ToolMatchersIndependent ==
    /\ [][tool' # tool =>
             /\ evaluationRecords' = evaluationRecords
             /\ calls' = calls
             /\ tool'.after = tool'.received]_vars
    /\ [][\A c \in CallIds : calls[c].pc # "idle" =>
             /\ calls'[c].receivedConversation = calls[c].receivedConversation
             /\ calls'[c].criteria = calls[c].criteria]_vars
    /\ [](\A c \in CallIds : calls[c].recordAt.defined =>
             /\ RecordOf(c).conversation = calls[c].receivedConversation.value
             /\ RecordOf(c).criteria = calls[c].criteria.value)

\* a tool-call matcher ran on a conversation with an assistant message while
\* one judge call was pending and one record was in the store
C28_Witness ==
    /\ tool.pc = "done"
    /\ tool.matcher = "toHaveToolCallResult"
    /\ Len(tool.received) = 2
    /\ tool.after = tool.received
    /\ Len(evaluationRecords) = 1
    /\ \E c \in CallIds : calls[c].pc = "awaiting" /\ calls[c].judgeCalls = 1

\* invocations that went past validation
PastValidation == {c \in CallIds : calls[c].pc # "idle" /\ ~InputsInvalid(c)}

\* invocations whose judge call is pending
JudgePending == {c \in CallIds : calls[c].pc = "awaiting" /\ ~calls[c].settled.defined}

(***************************************************************************)
(* C29: every toPassAllCriteria execution is ordered validate, evaluate,   *)
(* record, return.  The judge is invoked only in the step that ran the     *)
(* validation, and only when every check succeeded; a record is appended   *)
(* only by an invocation whose judge call had resolved before the step;    *)
(* an invocation that returned after the evaluation has its record in the  *)
(* store; an invocation that failed validation has returned, with no judge *)
(* call and no record.                                                     *)
(***************************************************************************)
C29_StrictOrder ==
    /\ [](\A c \in CallIds :
             /\ (calls[c].pc # "idle" /\ InputsInvalid(c)) =>
                   /\ calls[c].pc = "done"
                   /\ calls[c].outcome.defined
                   /\ calls[c].outcome.value.kind = "returned"
                   /\ calls[c].judgeCalls = 0
                   /\ ~calls[c].settled.defined
                   /\ ~calls[c].recordAt.defined
             /\ calls[c].judgeCalls > 0 => c \in PastValidation
             /\ calls[c].recordAt.defined =>
                   /\ calls[c].judgeCalls = 1
                   /\ calls[c].settled.defined
                   /\ calls[c].settled.value.kind = "resolved"
             /\ (c \in PastValidation /\ calls[c].outcome.defined
                    /\ calls[c].outcome.value.kind = "returned") =>
                   /\ calls[c].recordAt.defined
                   /\ calls[c].recordAt.value \in 1..Len(evaluationRecords)
                   /\ RecordOf(c).results = calls[c].settled.value.answer.value.object.criteria)
    /\ [][\A c \in CallIds :
             calls'[c].judgeCalls # calls[c].judgeCalls =>
                /\ calls[c].pc = "idle"
                /\ calls'[c].pc = "awaiting"
                /\ ~calls'[c].outcome.defined]_vars
    /\ [][evaluationRecords' # evaluationRecords =>
             \E c \in CallIds :
                /\ calls[c].pc = "awaiting"
                /\ calls[c].settled.defined
                /\ calls[c].settled.value.kind = "resolved"
                /\ ~calls[c].outcome.defined
                /\ calls'[c].recordAt = Some(Len(evaluationRecords'))
                /\ Len(evaluationRecords') = Len(evaluationRecords) + 1]_vars

\* one execution stopped at validation, the other went through the judge
\* call, the record and the return
C29_Witness ==
    /\ \E c \in CallIds :
          /\ calls[c].pc = "done"
          /\ InputsInvalid(c)
          /\ calls[c].judgeCalls = 0
          /\ ~calls[c].recordAt.defined
    /\ \E c \in PastValidation :
          /\ calls[c].pc = "done"
          /\ calls[c].settled.value.kind = "resolved"
          /\ calls[c].recordAt = Some(1)
          /\ calls[c].outcome.value.kind = "returned"
    /\ Len(evaluationRecords) = 1

(***************************************************************************)
(* C30: toPassAllCriteria has no timeout or cancellation.  While its judge *)
(* call is pending the matcher has neither returned nor rejected and has   *)
(* appended no record; an execution past validation has completed only if  *)
(* its judge call settled, returning after a resolved call and rejecting   *)
(* after a rejected one; and once the judge call has settled the matcher   *)
(* eventually completes.                                                   *)
(***************************************************************************)
C30_CompletesIffJudgeSettles ==
    /\ [](\A c \in JudgePending :
             /\ ~calls[c].outcome.defined
             /\ ~calls[c].recordAt.defined)
    /\ [](Len(evaluationRecords) =
             Cardinality({c \in CallIds : calls[c].pc = "done" /\ calls[c].settled.defined
                                             /\ calls[c].settled.value.kind = "resolved"}))
    /\ [](\A c \in PastValidation :
             calls[c].pc = "done" =>
                /\ calls[c].settled.defined
                /\ calls[c].outcome.defined
                /\ calls[c].outcome.value.kind =
                      (IF calls[c].settled.value.kind = "resolved" THEN "returned"
                       ELSE "rejected"))
    /\ [][\A c \in JudgePending : calls'[c].pc = "awaiting"]_vars
    /\ \A c \in CallIds :
          (calls[c].pc = "awaiting" /\ calls[c].settled.defined) ~> (calls[c].pc = "done")

\* the clock has run out while one judge call is still pending, its matcher
\* suspended; the other matcher completed after its judge call settled
C30_Witness ==
    /\ now = MaxClock
    /\ \E c \in JudgePending : calls[c].startTime = 0 /\ ~calls[c].outcome.defined
    /\ \E c \in PastValidation :
          /\ calls[c].pc = "done"
          /\ calls[c].settled.defined
          /\ calls[c].outcome.defined
    /\ Len(evaluationRecords) <= 1

====
